---- MODULE Spec2Model ----
(***************************************************************************)
(* A model of the peak finder (scripts/find_peaks_3d.py, find_peaks) and   *)
(* of the cube binning utility (utils/cube_utils.py, freq_smooth).         *)
(*                                                                         *)
(* One behaviour is one call of one of the two functions.  The arguments   *)
(* of the call are fixed by Init; the actions are the successive           *)
(* statements of the function body.  Arrays are functions from index       *)
(* tuples (z, y, x), zero based as in the source, to values.               *)
(***************************************************************************)
EXTENDS Integers, Sequences, FiniteSets, TLC

\* ------------------------------------------------------------------ bounds
MaxExt    == 3      \* largest extent of an axis of the field / cube
MaxVal    == 2      \* finite sample values are 0..MaxVal
MaxBorder == 2      \* border_width ranges over 0..MaxBorder (or None)
MaxPeaks  == 2      \* npeaks ranges over 1..MaxPeaks (or inf)

\* The value standing for IEEE not-a-number.  It is never compared with
\* <, > or = directly: NumEq and NumGt give the IEEE answers (always FALSE).
NaN == -9

Vals       == 0..MaxVal
ValsNaN    == Vals \cup {NaN}
Thresholds == {-1, 0, 1}
BoxSizes   == {1, 2, 3}
None       == <<>>
Some(x)    == <<x>>

\* ------------------------------------------------------------------ state
VARIABLES
    pc,             \* position in find_peaks
    callerData,     \* the caller's array passed as data: [shape, v]
    callerMask,     \* the caller's mask: None or Some([shape, v])
    threshold, box_size, footprint, border_width, npeaks, centroid_func, wcs,
    centroidsAvailable, \* whether "from ..centroids import ..." resolves
    dataRef,        \* what the local name data refers to: "caller" or "copy"
    dataCopy,       \* the np.copy of data, once made
    data_max, peak_goodmask,
    peaks,          \* rows (z_peak, y_peak, x_peak, peak_value)
    colnames,       \* the table's column names, in order
    calls,          \* number of calls made to each collaborator
    error,          \* the exception the call raised, or "none"
    fpc,            \* position in freq_smooth
    cube, bin_size, smooth,
    cube_new,       \* contents of the array np.zeros made for cube_new
    cube_new_ref,   \* what cube_new refers to: "unset", "new" or "cube"
    freq            \* loop variable of the binning loop

inputs  == <<callerMask, threshold, box_size, footprint, border_width, npeaks,
             centroid_func, wcs, centroidsAvailable>>
fsvars  == <<fpc, cube, bin_size, smooth, cube_new, cube_new_ref, freq>>
vars    == <<pc, callerData, inputs, dataRef, dataCopy, data_max, peak_goodmask,
             peaks, colnames, calls, error, fsvars>>

\* ------------------------------------------------------------ array helpers
Cells(s) == {<<z, y, x>> : z \in 0..(s[1] - 1), y \in 0..(s[2] - 1), x \in 0..(s[3] - 1)}

Size(s) == s[1] * s[2] * s[3]

\* The cell with row-major (C order) linear index i.
Unravel(i, s) == <<i \div (s[2] * s[3]), (i \div s[3]) % s[2], i % s[3]>>

NumEq(a, b) == a # NaN /\ b # NaN /\ a = b
NumGt(a, b) == a # NaN /\ b # NaN /\ a > b

MinOf(S) == CHOOSE m \in S : \A v \in S : m <= v
MaxOf(S) == IF NaN \in S THEN NaN ELSE CHOOSE m \in S : \A v \in S : v <= m

\* np.nanmin: the minimum over the non-NaN cells; NaN when there is none.
nanmin(d) ==
    LET F == {d[c] : c \in DOMAIN d} \ {NaN}
    IN  IF F = {} THEN NaN ELSE MinOf(F)

\* mode='nearest': an index outside the array is moved to the nearest edge.
Clamp(i, n) == IF i < 0 THEN 0 ELSE IF i > n - 1 THEN n - 1 ELSE i
Nearest(c, o, s) ==
    <<Clamp(c[1] + o[1], s[1]), Clamp(c[2] + o[2], s[2]), Clamp(c[3] + o[3], s[3])>>

\* size=box_size: the window of a box of side n covers, on every axis, the
\* offsets -(n // 2) .. n - 1 - (n // 2).
BoxOffsets(n) ==
    LET R == (0 - (n \div 2))..(n - 1 - (n \div 2))
    IN  {<<a, b, c>> : a \in R, b \in R, c \in R}

\* footprint=...: the offsets of the selected entries from the centre
\* entry, which is at index shape // 2 on every axis.
FootprintOffsets(fp) ==
    {<<p[1] - (fp.shape[1] \div 2), p[2] - (fp.shape[2] \div 2),
       p[3] - (fp.shape[3] \div 2)>> : p \in fp.on}

maximum_filter(d, offs, s) ==
    [c \in Cells(s) |-> MaxOf({d[Nearest(c, o, s)] : o \in offs})]

\* Python's normalisation of a slice bound i for an axis of length n.
SliceBound(i, n) ==
    IF i < 0 THEN (IF i + n < 0 THEN 0 ELSE i + n) ELSE (IF i > n THEN n ELSE i)

\* a.swapaxes(0, i)[:b] = False ; a.swapaxes(0, i)[-b:] = False
\* (the swapped array is a view: the writes land in a itself, on axis i).
ClearBorderAxis(g, i, b, s) ==
    LET head == 0..(SliceBound(b, s[i + 1]) - 1)
        tail == SliceBound(0 - b, s[i + 1])..(s[i + 1] - 1)
    IN  [c \in DOMAIN g |-> IF c[i + 1] \in head \/ c[i + 1] \in tail THEN FALSE ELSE g[c]]

ClearBorder(g, b, s) ==
    ClearBorderAxis(ClearBorderAxis(ClearBorderAxis(g, 0, b, s), 1, b, s), 2, b, s)

\* peak_goodmask.nonzero() with data[z_peaks, y_peaks, x_peaks]: the True
\* cells in row-major order, each with its value.
Nonzero(g, s) ==
    SelectSeq([i \in 1..Size(s) |-> Unravel(i - 1, s)], LAMBDA c : g[c])

Rows(g, d, s) ==
    LET nz == Nonzero(g, s)
    IN  [i \in 1..Len(nz) |-> <<nz[i][1], nz[i][2], nz[i][3], d[nz[i]]>>]

\* np.argsort(values), default kind='quicksort': an index array that puts
\* the values in ascending order.  The sort is not stable: the order among
\* equal values is whatever the build's sort produces, so every ascending
\* arrangement is a possible result.  Indices are 1-based here.
argsort(values) ==
    LET n == Len(values)
    IN  {p \in [1..n -> 1..n] :
            /\ \A i, j \in 1..n : i # j => p[i] # p[j]
            /\ \A i \in 1..(n - 1) : values[p[i]] <= values[p[i + 1]]}

Reverse(q) == [i \in 1..Len(q) |-> q[Len(q) + 1 - i]]
Take(q, k) == SubSeq(q, 1, IF k < Len(q) THEN k ELSE Len(q))

\* table.add_column(col, name=name, index=i): name goes before the column
\* that is at 0-based position i.
add_column(names, name, i) ==
    SubSeq(names, 1, i) \o <<name>> \o SubSeq(names, i + 1, Len(names))

\* table.colnames.index(name), 0-based.
IndexOf(names, name) == (CHOOSE i \in 1..Len(names) : names[i] = name) - 1

\* -------------------------------------------------------------- find_peaks
shape == callerData.shape

\* The array the local name data refers to.
Data == IF dataRef = "copy" THEN dataCopy ELSE callerData.v

PeaksIdle ==
    /\ pc = "idle" /\ callerData = [shape |-> <<1, 1, 1>>, v |-> <<>>]
    /\ callerMask = None /\ threshold = 0 /\ box_size = 3 /\ footprint = None
    /\ border_width = None /\ npeaks = None /\ centroid_func = "None"
    /\ wcs = FALSE /\ centroidsAvailable = FALSE
    /\ dataRef = "caller" /\ dataCopy = <<>> /\ data_max = <<>>
    /\ peak_goodmask = <<>> /\ peaks = <<>> /\ colnames = <<>>
    /\ calls = [centroid_sources |-> 0, pixel_to_world |-> 0]
    /\ error = "none"

FreqIdle ==
    /\ fpc = "idle" /\ cube = <<>> /\ bin_size = 0 /\ smooth = 0
    /\ cube_new = <<>> /\ cube_new_ref = "unset" /\ freq = 0

\* The state on entry to find_peaks(data, threshold, box_size, footprint,
\* mask, border_width, npeaks, centroid_func, error, wcs).
Call(d, thr, bs, fp, m, bw, np, cf, w, ca) ==
    /\ pc = "start"
    /\ callerData = d /\ callerMask = m
    /\ threshold = thr /\ box_size = bs /\ footprint = fp
    /\ border_width = bw /\ npeaks = np /\ centroid_func = cf /\ wcs = w
    /\ centroidsAvailable = ca
    /\ dataRef = "caller" /\ dataCopy = <<>>
    /\ data_max = <<>> /\ peak_goodmask = <<>>
    /\ peaks = <<>> /\ colnames = <<>>
    /\ calls = [centroid_sources |-> 0, pixel_to_world |-> 0]
    /\ error = "none"
    /\ FreqIdle

\* Sanitize without the np.copy: the NaN cells are overwritten in the
\* array the caller passed.
SanitizeInPlace ==
    /\ pc = "start"
    /\ LET nan_mask == {c \in DOMAIN Data : Data[c] = NaN}
       IN  callerData' = [callerData EXCEPT !.v =
               [c \in DOMAIN Data |-> IF c \in nan_mask THEN nanmin(Data) ELSE Data[c]]]
    /\ pc' = "filter"
    /\ UNCHANGED <<inputs, dataRef, dataCopy, data_max, peak_goodmask, peaks, colnames,
                   calls, error, fsvars>>

\* data = np.asanyarray(data); nan_mask = np.isnan(data);
\* if np.any(nan_mask): data = np.copy(data); data[nan_mask] = np.nanmin(data)
Sanitize ==
    /\ pc = "start"
    /\ LET nan_mask == {c \in DOMAIN Data : Data[c] = NaN}
       IN  IF nan_mask # {}
           THEN /\ dataRef' = "copy"
                /\ dataCopy' = [c \in DOMAIN Data |->
                                   IF c \in nan_mask THEN nanmin(Data) ELSE Data[c]]
                /\ UNCHANGED callerData
           ELSE UNCHANGED <<dataRef, dataCopy, callerData>>
    /\ pc' = "filter"
    /\ UNCHANGED <<inputs, data_max, peak_goodmask, peaks, colnames, calls, error, fsvars>>

\* if footprint is not None: footprint=footprint, else: size=box_size
Offsets == IF footprint # None THEN FootprintOffsets(footprint[1]) ELSE BoxOffsets(box_size)

\* data_max = maximum_filter(data, footprint= / size=, mode='nearest')
\* peak_goodmask = (data == data_max)
MaxFilter ==
    /\ pc = "filter"
    /\ LET dm == maximum_filter(Data, Offsets, shape)
       IN  /\ data_max' = dm
           /\ peak_goodmask' = [c \in Cells(shape) |-> NumEq(Data[c], dm[c])]
    /\ pc' = "mask"
    /\ UNCHANGED <<callerData, inputs, dataRef, dataCopy, peaks, colnames, calls, error, fsvars>>

\* if mask is not None: shape check, then peak_goodmask &= ~mask
ApplyMask ==
    /\ pc = "mask"
    /\ IF callerMask = None
       THEN /\ pc' = "border"
            /\ UNCHANGED <<peak_goodmask, error>>
       ELSE IF shape # callerMask[1].shape
       THEN /\ error' = "ValueError"
            /\ pc' = "raised"
            /\ UNCHANGED peak_goodmask
       ELSE /\ peak_goodmask' = [c \in Cells(shape) |->
                                    peak_goodmask[c] /\ ~callerMask[1].v[c]]
            /\ pc' = "border"
            /\ UNCHANGED error
    /\ UNCHANGED <<callerData, inputs, dataRef, dataCopy, data_max, peaks, colnames, calls, fsvars>>

\* if border_width is not None: for i in range(ndim): clear both ends of axis i
ApplyBorder ==
    /\ pc = "border"
    /\ peak_goodmask' = IF border_width = None THEN peak_goodmask
                        ELSE ClearBorder(peak_goodmask, border_width[1], shape)
    /\ pc' = "threshold"
    /\ UNCHANGED <<callerData, inputs, dataRef, dataCopy, data_max, peaks, colnames, calls, error, fsvars>>

\* ThresholdExtract with data >= threshold.
ThresholdExtractInclusive ==
    /\ pc = "threshold"
    /\ LET g == [c \in Cells(shape) |->
                    peak_goodmask[c] /\ Data[c] # NaN /\ Data[c] >= threshold]
       IN  /\ peak_goodmask' = g
           /\ peaks' = Rows(g, Data, shape)
    /\ pc' = "truncate"
    /\ UNCHANGED <<callerData, inputs, dataRef, dataCopy, data_max, colnames, calls, error, fsvars>>

\* peak_goodmask &= (data > threshold); nonzero(); peak_values = data[...]
ThresholdExtract ==
    /\ pc = "threshold"
    /\ LET g == [c \in Cells(shape) |-> peak_goodmask[c] /\ NumGt(Data[c], threshold)]
       IN  /\ peak_goodmask' = g
           /\ peaks' = Rows(g, Data, shape)
    /\ pc' = "truncate"
    /\ UNCHANGED <<callerData, inputs, dataRef, dataCopy, data_max, colnames, calls, error, fsvars>>

\* Truncate without the [::-1]: the npeaks smallest values are kept.
TruncateAscending ==
    /\ pc = "truncate"
    /\ IF npeaks # None /\ Len(peaks) > npeaks[1]
       THEN \E p \in argsort([i \in 1..Len(peaks) |-> peaks[i][4]]) :
                LET idx == Take(p, npeaks[1])
                IN  peaks' = [i \in 1..Len(idx) |-> peaks[idx[i]]]
       ELSE UNCHANGED peaks
    /\ pc' = "table"
    /\ UNCHANGED <<callerData, inputs, dataRef, dataCopy, data_max, peak_goodmask, colnames, calls, error, fsvars>>

\* Truncate without the sort: the first npeaks peaks of the scan are kept.
TruncateScanOrder ==
    /\ pc = "truncate"
    /\ IF npeaks # None /\ Len(peaks) > npeaks[1]
       THEN peaks' = Take(peaks, npeaks[1])
       ELSE UNCHANGED peaks
    /\ pc' = "table"
    /\ UNCHANGED <<callerData, inputs, dataRef, dataCopy, data_max, peak_goodmask, colnames, calls, error, fsvars>>

\* if nxpeaks > npeaks: idx = np.argsort(peak_values)[::-1][:npeaks]; take idx
Truncate ==
    /\ pc = "truncate"
    /\ IF npeaks # None /\ Len(peaks) > npeaks[1]
       THEN \E p \in argsort([i \in 1..Len(peaks) |-> peaks[i][4]]) :
                LET idx == Take(Reverse(p), npeaks[1])
                IN  peaks' = [i \in 1..Len(idx) |-> peaks[idx[i]]]
       ELSE UNCHANGED peaks
    /\ pc' = "table"
    /\ UNCHANGED <<callerData, inputs, dataRef, dataCopy, data_max, peak_goodmask, colnames, calls, error, fsvars>>

\* table = QTable([z_peaks, y_peaks, x_peaks, peak_values], names=colnames)
BuildTable ==
    /\ pc = "table"
    /\ colnames' = <<"z_peak", "y_peak", "x_peak", "peak_value">>
    /\ pc' = "wcs"
    /\ UNCHANGED <<callerData, inputs, dataRef, dataCopy, data_max, peak_goodmask, peaks, calls, error, fsvars>>

\* WcsPeaks with the transform called once for every peak.
WcsPeaksPerPeak ==
    /\ pc = "wcs"
    /\ IF wcs
       THEN /\ calls' = [calls EXCEPT !.pixel_to_world = @ + Len(peaks)]
            /\ colnames' = add_column(colnames, "skycoord_peak", 2)
       ELSE UNCHANGED <<calls, colnames>>
    /\ pc' = "centroid"
    /\ UNCHANGED <<callerData, inputs, dataRef, dataCopy, data_max, peak_goodmask, peaks, error, fsvars>>

\* if wcs is not None: pixel_to_world(x_peaks, y_peaks); add_column(index=2)
WcsPeaks ==
    /\ pc = "wcs"
    /\ IF wcs
       THEN /\ calls' = [calls EXCEPT !.pixel_to_world = @ + 1]
            /\ colnames' = add_column(colnames, "skycoord_peak", 2)
       ELSE UNCHANGED <<calls, colnames>>
    /\ pc' = "centroid"
    /\ UNCHANGED <<callerData, inputs, dataRef, dataCopy, data_max, peak_goodmask, peaks, error, fsvars>>

\* if centroid_func is not None: from ..centroids import centroid_sources
ImportCentroids ==
    /\ pc = "centroid"
    /\ IF centroid_func = "None"
       THEN pc' = "return" /\ UNCHANGED error
       ELSE IF ~centroidsAvailable
       THEN pc' = "raised" /\ error' = "ImportError"
       ELSE pc' = "callable" /\ UNCHANGED error
    /\ UNCHANGED <<callerData, inputs, dataRef, dataCopy, data_max, peak_goodmask, peaks, colnames, calls, fsvars>>

\* if not callable(centroid_func): raise TypeError
CheckCallable ==
    /\ pc = "callable"
    /\ IF centroid_func = "callable"
       THEN pc' = "fit" /\ UNCHANGED error
       ELSE pc' = "raised" /\ error' = "TypeError"
    /\ UNCHANGED <<callerData, inputs, dataRef, dataCopy, data_max, peak_goodmask, peaks, colnames, calls, fsvars>>

\* x_centroids, y_centroids = centroid_sources(...); two columns appended
CentroidSources ==
    /\ pc = "fit"
    /\ calls' = [calls EXCEPT !.centroid_sources = @ + 1]
    /\ colnames' = Append(Append(colnames, "x_centroid"), "y_centroid")
    /\ pc' = "wcs_centroid"
    /\ UNCHANGED <<callerData, inputs, dataRef, dataCopy, data_max, peak_goodmask, peaks, error, fsvars>>

\* if wcs is not None: pixel_to_world(x_centroids, y_centroids);
\* add_column(index=colnames.index('y_centroid') + 1)
WcsCentroids ==
    /\ pc = "wcs_centroid"
    /\ IF wcs
       THEN /\ calls' = [calls EXCEPT !.pixel_to_world = @ + 1]
            /\ colnames' = add_column(colnames, "skycoord_centroid",
                                      IndexOf(colnames, "y_centroid") + 1)
       ELSE UNCHANGED <<calls, colnames>>
    /\ pc' = "return"
    /\ UNCHANGED <<callerData, inputs, dataRef, dataCopy, data_max, peak_goodmask, peaks, error, fsvars>>

\* return table
Return ==
    /\ pc = "return"
    /\ pc' = "done"
    /\ UNCHANGED <<callerData, inputs, dataRef, dataCopy, data_max, peak_goodmask, peaks, colnames, calls, error, fsvars>>

\* ------------------------------------------------------------- freq_smooth
\* A cube is a sequence of planes along axis 0; a plane (shape[1] = 1,
\* shape[2] = 2) is a sequence of its two samples.
PlaneShape == <<1, 2>>
PlaneCells == 1..(PlaneShape[1] * PlaneShape[2])
ZeroPlane  == [k \in PlaneCells |-> 0]

RECURSIVE SumPlanes(_)
\* np.sum(planes, axis=0): the element-wise sum; zeros for no plane.
SumPlanes(ps) ==
    IF ps = <<>> THEN ZeroPlane
    ELSE [k \in PlaneCells |-> ps[1][k] + SumPlanes(Tail(ps))[k]]

\* cube[a:b] for 0 <= a <= b
SliceAxis0(c, a, b) == SubSeq(c, SliceBound(a, Len(c)) + 1, SliceBound(b, Len(c)))

\* convolve(column, kernel) belongs to astropy: of its result only the shape
\* is known here.  Two results of the right shape stand for all of them.
ConvolveResults(c) == {c, [f \in 1..Len(c) |-> ZeroPlane]}

peakvars == <<pc, callerData, inputs, dataRef, dataCopy, data_max, peak_goodmask,
              peaks, colnames, calls, error>>

\* if bin_size: cube_new = np.zeros((shape[0]//bin_size, shape[1], shape[2]))
FsBin ==
    /\ fpc = "start" /\ bin_size # 0
    /\ cube_new' = [f \in 1..(Len(cube) \div bin_size) |-> ZeroPlane]
    /\ cube_new_ref' = "new"
    /\ freq' = 0
    /\ fpc' = "binloop"
    /\ UNCHANGED <<cube, bin_size, smooth, peakvars>>

\* FsBinStep with the group starting at freq instead of freq*bin_size.
FsBinStepNoStride ==
    /\ fpc = "binloop"
    /\ IF freq < Len(cube) \div bin_size
       THEN /\ cube_new' = [cube_new EXCEPT ![freq + 1] =
                    SumPlanes(SliceAxis0(cube, freq, freq + bin_size))]
            /\ freq' = freq + 1
            /\ UNCHANGED fpc
       ELSE /\ fpc' = "return"
            /\ UNCHANGED <<cube_new, freq>>
    /\ UNCHANGED <<cube, bin_size, smooth, cube_new_ref, peakvars>>

\* for freq in range(shape[0]//bin_size):
\*     cube_new[freq] = np.sum(cube[freq*bin_size : (freq+1)*bin_size], axis=0)
FsBinStep ==
    /\ fpc = "binloop"
    /\ IF freq < Len(cube) \div bin_size
       THEN /\ cube_new' = [cube_new EXCEPT ![freq + 1] =
                    SumPlanes(SliceAxis0(cube, freq * bin_size, (freq + 1) * bin_size))]
            /\ freq' = freq + 1
            /\ UNCHANGED fpc
       ELSE /\ fpc' = "return"
            /\ UNCHANGED <<cube_new, freq>>
    /\ UNCHANGED <<cube, bin_size, smooth, cube_new_ref, peakvars>>

\* elif smooth: cube_new = np.zeros_like(cube); every column convolved
FsSmooth ==
    /\ fpc = "start" /\ bin_size = 0 /\ smooth # 0
    /\ \E c \in ConvolveResults(cube) : cube_new' = c
    /\ cube_new_ref' = "new"
    /\ fpc' = "return"
    /\ UNCHANGED <<cube, bin_size, smooth, freq, peakvars>>

\* else: cube_new = cube
FsNothing ==
    /\ fpc = "start" /\ bin_size = 0 /\ smooth = 0
    /\ cube_new_ref' = "cube"
    /\ fpc' = "return"
    /\ UNCHANGED <<cube, bin_size, smooth, cube_new, freq, peakvars>>

\* return cube_new
FsReturn ==
    /\ fpc = "return"
    /\ fpc' = "done"
    /\ UNCHANGED <<cube, bin_size, smooth, cube_new, cube_new_ref, freq, peakvars>>

\* The array freq_smooth returns.
Returned == IF cube_new_ref = "cube" THEN cube ELSE cube_new

\* ------------------------------------------------------------ the calls made
Shapes     == {<<a, b, c>> : a \in 1..MaxExt, b \in 1..MaxExt, c \in 1..MaxExt}
LineShapes == {<<1, 1, n>> : n \in 1..MaxExt}
Arr(s, f)  == [shape |-> s, v |-> f]

ConstFields(s)  == {[c \in Cells(s) |-> k] : k \in Vals}
SourceFields(s) == {[c \in Cells(s) |-> IF c = h THEN hv ELSE 0] :
                        h \in Cells(s), hv \in 1..MaxVal}
DenseFields(s)  == [Cells(s) -> ValsNaN]
NaNFields(s)    == {[c \in Cells(s) |-> IF c = h THEN NaN ELSE 1] : h \in Cells(s)}
CheckerMask(s)  == [c \in Cells(s) |-> (c[1] + c[2] + c[3]) % 2 = 1]
Footprints ==
    {[shape |-> <<1, 1, 3>>, on |-> S] :
        S \in (SUBSET {<<0, 0, 0>>, <<0, 0, 1>>, <<0, 0, 2>>}) \ {{}}}
Borders  == {None} \cup {Some(b) : b \in 0..MaxBorder}
Planes   == {<<0, 0>>, <<1, 0>>, <<0, 1>>}
Cubes    == UNION {[1..n -> Planes] : n \in 0..(MaxExt + 2)}

\* Constant fields of every shape, with every border width.
InitGeometry ==
    \E s \in Shapes : \E f \in ConstFields(s) : \E bw \in Borders :
    \E thr \in Thresholds : \E m \in {None, Some(Arr(s, CheckerMask(s)))} :
        Call(Arr(s, f), thr, 3, None, m, bw, None, "None", FALSE, FALSE)

\* A zero field with one source, of every shape.
InitSources ==
    \E s \in Shapes : \E f \in SourceFields(s) : \E thr \in Thresholds :
        Call(Arr(s, f), thr, 3, None, None, None, None, "None", FALSE, FALSE)

\* Every field (NaN included) on a line, with every neighbourhood.
InitDense ==
    \E s \in LineShapes : \E f \in DenseFields(s) : \E thr \in Thresholds :
        \/ \E bs \in BoxSizes :
              Call(Arr(s, f), thr, bs, None, None, None, None, "None", FALSE, FALSE)
        \/ \E fp \in Footprints :
              Call(Arr(s, f), thr, 3, Some(fp), None, None, None, "None", FALSE, FALSE)

\* Every field on a line, every cell a candidate, npeaks given.
InitTruncate ==
    \E s \in LineShapes : \E f \in DenseFields(s) : \E k \in 1..MaxPeaks :
        Call(Arr(s, f), -1, 1, None, None, None, Some(k), "None", FALSE, FALSE)

\* Every mask, of the field's shape or of another one.
InitMasks ==
    \E s \in LineShapes : \E f \in SourceFields(s) \cup ConstFields(s) \cup NaNFields(s) :
    \E ms \in LineShapes \cup {<<1, MaxExt, 1>>} : \E mv \in [Cells(ms) -> BOOLEAN] :
    \E thr \in {-1, 0} :
        Call(Arr(s, f), thr, 3, None, Some(Arr(ms, mv)), None, None, "None", FALSE, FALSE)

\* Every combination of wcs and centroid_func.
InitCollaborators ==
    \E s \in LineShapes : \E f \in SourceFields(s) : \E thr \in {-1, 0} :
    \E np \in {None, Some(1)} : \E cf \in {"None", "callable", "notcallable"} :
    \E w \in BOOLEAN : \E ca \in BOOLEAN :
        Call(Arr(s, f), thr, 3, None, None, None, np, cf, w, ca)

\* freq_smooth(cube, bin_size, smooth)
InitFreqSmooth ==
    /\ PeaksIdle
    /\ fpc = "start"
    /\ cube \in Cubes
    /\ bin_size \in 0..(MaxExt + 1)
    /\ smooth \in {0, 1}
    /\ cube_new = <<>> /\ cube_new_ref = "unset" /\ freq = 0

Init ==
    \/ InitGeometry
    \/ InitSources
    \/ InitDense
    \/ InitTruncate
    \/ InitMasks
    \/ InitCollaborators
    \/ InitFreqSmooth

Next ==
    \/ Sanitize
    \/ MaxFilter
    \/ ApplyMask
    \/ ApplyBorder
    \/ ThresholdExtract
    \/ Truncate
    \/ BuildTable
    \/ WcsPeaks
    \/ ImportCentroids
    \/ CheckCallable
    \/ CentroidSources
    \/ WcsCentroids
    \/ Return
    \/ FsBin
    \/ FsBinStep
    \/ FsSmooth
    \/ FsNothing
    \/ FsReturn

Spec == Init /\ [][Next]_vars

\* ------------------------------------------------------------------ claims
Cell(r)       == <<r[1], r[2], r[3]>>
ReturnedRows  == {peaks[i] : i \in 1..Len(peaks)}
ReturnedCells == {Cell(peaks[i]) : i \in 1..Len(peaks)}

Masked(c) == callerMask # None /\ callerMask[1].v[c]

\* data[c] equals the maximum of data over the neighbourhood of c.
IsLocalMax(c) ==
    LET N == {Data[Nearest(c, o, shape)] : o \in Offsets}
    IN  /\ NaN \notin N \cup {Data[c]}
        /\ Data[c] \in N
        /\ \A v \in N : v <= Data[c]

AboveThreshold(c) == Data[c] # NaN /\ Data[c] > threshold

IsPeak(c) == IsLocalMax(c) /\ ~Masked(c) /\ AboveThreshold(c)

Interior(c, b) == \A i \in 1..3 : b <= c[i] /\ c[i] < shape[i] - b

RowMajorBefore(a, b) ==
    \/ a[1] < b[1]
    \/ a[1] = b[1] /\ a[2] < b[2]
    \/ a[1] = b[1] /\ a[2] = b[2] /\ a[3] < b[3]

\* The peaks extracted before truncation, as a set of rows.
ExtractedRows ==
    {<<c[1], c[2], c[3], Data[c]>> : c \in {c \in Cells(shape) : peak_goodmask[c]}}

Truncated == npeaks # None /\ Cardinality(ExtractedRows) > npeaks[1]

\* C1: with border_width = b given (b = 0 included), a cell is returned if
\* and only if it equals its neighbourhood maximum, is not masked, is above
\* threshold and has every axis index in [b, extent - b).
C1_BorderExact ==
    (pc = "done" /\ border_width # None /\ npeaks = None) =>
        ReturnedCells = {c \in Cells(shape) : IsPeak(c) /\ Interior(c, border_width[1])}

\* C2: when more than npeaks = k peaks are extracted, exactly k are
\* returned, in descending order of peak_value, and every returned value is
\* at least every dropped value; otherwise no peak is dropped.
C2_TopK ==
    pc = "done" =>
        IF Truncated
        THEN /\ Len(peaks) = npeaks[1]
             /\ Cardinality(ReturnedRows) = npeaks[1]
             /\ ReturnedRows \subseteq ExtractedRows
             /\ \A i, j \in 1..Len(peaks) : i < j => peaks[i][4] >= peaks[j][4]
             /\ \A r \in ReturnedRows : \A d \in ExtractedRows \ ReturnedRows : r[4] >= d[4]
        ELSE /\ ReturnedRows = ExtractedRows
             /\ Len(peaks) = Cardinality(ExtractedRows)

C2_Witness ==
    /\ pc = "done" /\ Truncated /\ npeaks[1] >= 2
    /\ Len(peaks) = npeaks[1]
    /\ peaks[1][4] > peaks[2][4]
    /\ \E d \in ExtractedRows \ ReturnedRows : d[4] < peaks[2][4]

\* C3 as stated: among equal valued peaks at the truncation boundary the
\* ones earlier in scan order are kept: no peak is kept while an equal
\* valued peak earlier in scan order is dropped.  (Stated for the calls whose
\* field holds no NaN, where no cell of the tie is a replaced one.)
C3_EarlierTieKept ==
    (pc = "done" /\ Truncated /\ dataRef = "caller") =>
        \A r \in ReturnedRows : \A d \in ExtractedRows \ ReturnedRows :
            r[4] = d[4] => RowMajorBefore(Cell(r), Cell(d))

\* C3 as amended: scan order does not decide which tied peaks are kept.
\* With v the smallest returned value, every extracted peak above v is
\* returned and the rest of the npeaks places is filled by peaks of value v.
C3_TieFill ==
    (pc = "done" /\ Truncated) =>
        LET v     == MinOf({r[4] : r \in ReturnedRows})
            above == {e \in ExtractedRows : e[4] > v}
            tied  == {e \in ExtractedRows : e[4] = v}
        IN  /\ above \subseteq ReturnedRows
            /\ ReturnedRows \ above \subseteq tied
            /\ Cardinality(ReturnedRows \ above) = npeaks[1] - Cardinality(above)

\* A later tied peak is kept and an earlier one dropped.
C3_Witness ==
    /\ pc = "done" /\ Truncated
    /\ \E r \in ReturnedRows : \E d \in ExtractedRows \ ReturnedRows :
           r[4] = d[4] /\ RowMajorBefore(Cell(d), Cell(r))

\* C4: in a field with a non-NaN cell, a cell that is NaN in the input is
\* never marked a local maximum and never returned.
C4_NaNNeverPeak ==
    \A c \in DOMAIN callerData.v :
        (callerData.v[c] = NaN /\ \E d \in DOMAIN callerData.v : callerData.v[d] # NaN) =>
            /\ pc = "mask" => ~peak_goodmask[c]
            /\ pc = "done" => c \notin ReturnedCells

ExpectedColumns ==
    <<"z_peak", "y_peak", "x_peak", "peak_value">>
    \o (IF wcs THEN <<"skycoord_peak">> ELSE <<>>)
    \o (IF centroid_func # "None" THEN <<"x_centroid", "y_centroid">> ELSE <<>>)
    \o (IF wcs /\ centroid_func # "None" THEN <<"skycoord_centroid">> ELSE <<>>)

\* C5: the returned table's columns are z_peak, y_peak, x_peak, peak_value,
\* then skycoord_peak (wcs), x_centroid, y_centroid (centroid_func),
\* skycoord_centroid (both), in this order.
C5_ColumnOrder == pc = "done" => colnames = ExpectedColumns

C7_TypeError ==
    (centroid_func = "notcallable" /\ pc \in {"done", "raised"}) => error = "TypeError"

RECURSIVE SumRange(_, _, _, _)
\* cube[lo][k] + ... + cube[hi][k], axis-0 indices 0-based
SumRange(c, k, lo, hi) ==
    IF hi < lo THEN 0 ELSE c[hi + 1][k] + SumRange(c, k, lo, hi - 1)

\* C8: with bin_size = b > 0 the result has floor(L / b) slices, slice f the
\* element-wise sum of input slices f*b .. (f+1)*b - 1, whatever smooth is;
\* with bin_size = 0 and smooth = 0 the input object itself is returned.
C8_Binning ==
    fpc = "done" =>
        /\ bin_size > 0 =>
              /\ cube_new_ref = "new"
              /\ Len(Returned) = Len(cube) \div bin_size
              /\ \A f \in 0..(Len(Returned) - 1) : \A k \in PlaneCells :
                     Returned[f + 1][k] =
                         SumRange(cube, k, f * bin_size, (f + 1) * bin_size - 1)
        /\ (bin_size = 0 /\ smooth = 0) => cube_new_ref = "cube"

\* Two full groups and a remainder slice that is not zero, smooth set too.
C8_Witness ==
    /\ fpc = "done" /\ bin_size >= 2 /\ smooth # 0
    /\ Len(cube) % bin_size # 0
    /\ Len(Returned) >= 2
    /\ cube[Len(cube)] # ZeroPlane
    /\ Returned[1] # ZeroPlane /\ Returned[2] # Returned[1]

C10_CallerArraysUnchanged ==
    [][callerData' = callerData /\ callerMask' = callerMask]_vars

\* A finished call that replaced a NaN cell, in its own copy, with a mask.
C10_Witness ==
    /\ pc = "done" /\ dataRef = "copy" /\ callerMask # None
    /\ \E c \in Cells(shape) : callerData.v[c] = NaN /\ dataCopy[c] # NaN

====
